---- MODULE Spec2Model ----
(***************************************************************************)
(* A model of the provider-dispatch-and-cache layer of CodeViz:            *)
(* src/utils/call_llm.py (call_llm, PROVIDER_MAP, DEFAULT_PROVIDER,        *)
(* CACHE_FILE) and the three adapters under src/utils/llm_providers.       *)
(*                                                                         *)
(* Text is a sequence of one-character strings, so that concatenation,     *)
(* lower() and the substring test of Python's "in" are computed and not    *)
(* assumed.  Python values are records [t, v]: t is the Python type and v  *)
(* the payload (characters of a str, ordered <<key, value>> pairs of a     *)
(* dict, items of a list).                                                 *)
(***************************************************************************)
EXTENDS Naturals, Sequences, FiniteSets

VARIABLES
    DEFAULT_LLM_PROVIDER,    \* the environment variable read at call_llm.py:47
    module,                  \* whether the import of call_llm.py has run, and how it ended
    DEFAULT_PROVIDER,        \* module global, call_llm.py:47
    file,                    \* the content of CACHE_FILE on disk
    pc,                      \* position of each caller inside call_llm
    prompt,                  \* argument of the running call
    provider,                \* argument of the running call
    use_cache,               \* argument of the running call
    selected_provider_name,  \* local, call_llm.py:53
    cache_key,               \* local, call_llm.py:66
    response_text,           \* local, call_llm.py:86
    current_cache,           \* local, call_llm.py:96-104
    result,                  \* what the call gave its caller: a value or an exception
    log,                     \* records the call handed to logger
    invoked,                 \* adapter invocations made by the call
    io,                      \* open() calls the call made on CACHE_FILE
    wrote,                   \* the call's json.dump is the latest write of the file
    missed,                  \* keys others wrote between the call's reload and its dump
    role,                    \* place of the call in a run of repeated calls
    chain,                   \* the run of repeated calls in progress
    calls,                   \* number of calls started so far
    file0,                   \* the file as the call found it, while the call runs
                             \* beside no other call and meets no I/O failure
    response1,               \* what the caller's call before gave, when the running
                             \* call is the second call of the demo, call_llm.py:199-204
    adapter                  \* the frame of an adapter function called on its own

vars == <<DEFAULT_LLM_PROVIDER, module, DEFAULT_PROVIDER, file, pc, prompt, provider, use_cache,
          selected_provider_name, cache_key, response_text, current_cache,
          result, log, invoked, io, wrote, missed, role, chain, calls, file0,
          response1, adapter>>

\* the variables of call_llm and of its module
callvars == <<DEFAULT_LLM_PROVIDER, module, DEFAULT_PROVIDER, file, pc, prompt,
              provider, use_cache, selected_provider_name, cache_key,
              response_text, current_cache, result, log, invoked, io, wrote,
              missed, role, chain, calls, file0, response1>>

-----------------------------------------------------------------------------
(* Bounds of the model *)

\* total number of call_llm calls started in one behaviour
MaxCalls == 2

\* longest prompt over Alphabet for which the key construction is compared
MaxPromptLen == 2

\* the concurrent callers
Procs == {1, 2}

-----------------------------------------------------------------------------
(* Python values *)

PyNone == [t |-> "None", v |-> <<>>]
PyStr(s) == [t |-> "str", v |-> s]
PyDict(pairs) == [t |-> "dict", v |-> pairs]
PyList(items) == [t |-> "list", v |-> items]
PyInt == [t |-> "int", v |-> <<>>]

\* Python truthiness of the values used as a provider argument
Truthy(x) == x.t = "str" /\ x.v # <<>>

\* str.lower() on the letters the model uses
LowerChar(c) ==
    CASE c = "G" -> "g"
      [] c = "R" -> "r"
      [] c = "O" -> "o"
      [] c = "Q" -> "q"
      [] OTHER -> c

lower(s) == [i \in 1..Len(s) |-> LowerChar(s[i])]

\* s occurs in w as a contiguous run of characters (str.__contains__)
IsSubstring(s, w) ==
    \E i \in 0..Len(w) :
        /\ i + Len(s) <= Len(w)
        /\ \A j \in 1..Len(s) : w[i + j] = s[j]

\* dict: ordered <<key, value>> pairs with distinct keys
DictKeys(pairs) == {pairs[i][1] : i \in 1..Len(pairs)}

DictGet(pairs, k) ==
    pairs[CHOOSE i \in 1..Len(pairs) : pairs[i][1] = k][2]

\* d[k] = x on a dict: overwrite in place, or append as the newest key
DictSet(pairs, k, x) ==
    IF k \in DictKeys(pairs)
    THEN [i \in 1..Len(pairs) |->
             IF pairs[i][1] = k THEN <<k, x>> ELSE pairs[i]]
    ELSE Append(pairs, <<k, x>>)

\* "k in c": a value, or TypeError for a value that is not a container
PyContains(c, k) ==
    CASE c.t = "dict" -> [raised |-> FALSE, val |-> k \in DictKeys(c.v)]
      [] c.t = "list" -> [raised |-> FALSE,
                          val |-> \E i \in 1..Len(c.v) : c.v[i] = k]
      [] c.t = "str" -> [raised |-> FALSE, val |-> IsSubstring(k, c.v)]
      [] OTHER -> [raised |-> TRUE, val |-> FALSE]

\* "c[k]" with a str k: only a dict can be subscripted by a str
PyGetItemRaises(c) == c.t # "dict"

\* "c[k] = x" with a str k: only a dict accepts it
PySetItemRaises(c) == c.t # "dict"

-----------------------------------------------------------------------------
(* Text constants *)

S_openrouter == <<"o","p","e","n","r","o","u","t","e","r">>
S_groq == <<"g","r","o","q">>
S_togetherai == <<"t","o","g","e","t","h","e","r","a","i">>

\* PROVIDER_MAP: name -> adapter function
PROVIDER_MAP ==
    [n \in {S_openrouter, S_groq, S_togetherai} |->
        CASE n = S_openrouter -> "call_openrouter"
          [] n = S_groq -> "call_groq"
          [] OTHER -> "call_togetherai"]

\* list(PROVIDER_MAP.keys()), in insertion order
ProviderKeys == <<S_openrouter, S_groq, S_togetherai>>

\* "name in PROVIDER_MAP"
InProviderMap(name) == name \in DOMAIN PROVIDER_MAP

-----------------------------------------------------------------------------
(* The cache file and JSON *)

\* What CACHE_FILE holds: k is "absent" (no such file), "empty" (zero bytes,
\* as left by open(CACHE_FILE, "w")), "garbage" (bytes that are not JSON) or
\* "json" with v the JSON value: t is "object" (v: <<key, value>> pairs in
\* file order, keys possibly repeated), "array", "string" or "number".
FileAbsent == [k |-> "absent", v |-> PyNone]
FileEmpty == [k |-> "empty", v |-> PyNone]
FileGarbage == [k |-> "garbage", v |-> PyNone]
FileJson(j) == [k |-> "json", v |-> j]

JsonObject(pairs) == [t |-> "object", v |-> pairs]
JsonArray(items) == [t |-> "array", v |-> items]
JsonString(s) == [t |-> "string", v |-> s]
JsonNumber == [t |-> "number", v |-> <<>>]

\* os.path.exists(CACHE_FILE)
Exists(f) == f.k # "absent"

\* the dict json.load builds from an object: a repeated key keeps its first
\* position and takes its last value
RECURSIVE LoadPairs(_, _)
LoadPairs(pairs, acc) ==
    IF pairs = <<>> THEN acc
    ELSE LoadPairs(Tail(pairs), DictSet(acc, Head(pairs)[1], Head(pairs)[2]))

\* json.load raises on a file that is not JSON
JsonLoadRaises(f) == f.k # "json"

\* json.load(f) of a file that holds JSON
json_load(j) ==
    CASE j.t = "object" -> PyDict(LoadPairs(j.v, <<>>))
      [] j.t = "array" -> PyList(j.v)
      [] j.t = "string" -> PyStr(j.v)
      [] OTHER -> PyInt

\* json.dump(d, f, indent=2) of a dict of str to str
json_dump_newest(d) == JsonObject(<<d.v[Len(d.v)]>>)

json_dump(d) == JsonObject(d.v)

\* The bytes in the file after a handle opened with "w" writes its text at
\* offset 0.  before is what the file held: "empty" when nothing was written
\* since this handle truncated it; otherwise another handle wrote in between,
\* and a longer text of that writer leaves its tail behind this one (clobbered).
WriteAtZero(before, d, clobbered) ==
    IF before.k = "empty" \/ ~clobbered
    THEN FileJson(json_dump(d))
    ELSE FileGarbage

-----------------------------------------------------------------------------
(* What a call gives back, and what it logs *)

NoResult ==
    [kind |-> "none", val |-> <<>>, exc |-> "", what |-> "",
     name |-> <<>>, available |-> <<>>]

Returned(x) == [NoResult EXCEPT !.kind = "return", !.val = x]

Raised(type, what) == [NoResult EXCEPT !.kind = "raise", !.exc = type, !.what = what]

\* ValueError(f"Invalid provider: {name}. Available providers: {keys}")
InvalidProvider(name) ==
    [NoResult EXCEPT !.kind = "raise", !.exc = "ValueError",
                     !.what = "Invalid provider", !.name = name,
                     !.available = ProviderKeys]

LogRecordUntagged(level, tag, msg, text) ==
    [level |-> level, provider |-> <<>>, msg |-> msg, text |-> text]

LogRecord(level, tag, msg, text) ==
    [level |-> level, provider |-> tag, msg |-> msg, text |-> text]

-----------------------------------------------------------------------------
(* Provider adapters *)

\* texts an upstream model may answer with
Responses == {<<"h","i">>, <<"y","o">>}

\* replies of the OpenRouter HTTP endpoint: status and the parsed body
HttpReplies ==
    {[status_code |-> 200, shape |-> "content", content |-> r] : r \in Responses}
    \cup {[status_code |-> 200, shape |-> "no_choices", content |-> <<>>],
          [status_code |-> 500, shape |-> "error", content |-> <<>>]}

\* outcomes of chain.invoke of the SDK adapters
SdkReplies ==
    {[ok |-> TRUE, text |-> r] : r \in Responses}
    \cup {[ok |-> FALSE, text |-> <<>>]}

call_openrouter(x, api_key, reply) ==
    IF ~api_key
    THEN Raised("ValueError", "OPENROUTER_API_KEY is not set.")
    ELSE IF reply.status_code # 200
    THEN Raised("Exception", "OpenRouter API call failed with status")
    ELSE IF reply.shape # "content"
    THEN Raised("Exception", "Failed to parse OpenRouter response")
    ELSE Returned(reply.content)

call_groq(x, api_key, reply) ==
    IF ~api_key
    THEN Raised("ValueError", "GROQ_API_KEY is not set.")
    ELSE IF ~reply.ok
    THEN Raised("Exception", "Groq API call failed")
    ELSE Returned(reply.text)

call_togetherai(x, api_key, reply) ==
    IF ~api_key
    THEN Raised("ValueError", "TOGETHERAI_API_KEY is not set.")
    ELSE IF ~reply.ok
    THEN Raised("Exception", "TogetherAI API call failed")
    ELSE Returned(reply.text)

\* provider_function(prompt) for the adapter function fn
provider_function(fn, x, api_key, http, sdk) ==
    CASE fn = "call_openrouter" -> call_openrouter(x, api_key, http)
      [] fn = "call_groq" -> call_groq(x, api_key, sdk)
      [] OTHER -> call_togetherai(x, api_key, sdk)

-----------------------------------------------------------------------------
(* Inputs *)

S_a == <<"a">>
S__a == <<"_","a">>

\* prompts the callers pass
Prompts == {S_a, S__a}

\* provider arguments the callers pass: omitted, empty, a registered name in
\* mixed case, an unregistered name, the registered name in lower case
ProviderArgs ==
    <<PyNone, PyStr(<<>>), PyStr(<<"G","r","o","q">>), PyStr(<<"g","r","o","k">>),
      PyStr(S_groq)>>

\* What each caller passes.  Caller 1 draws from every prompt and from the
\* first four provider arguments; caller 2 is the thread that runs beside it:
\* it uses the cache and names its provider in lower case.
PromptsOf(p) == IF p = 1 THEN Prompts ELSE {S_a}

ProviderArgsOf(p) == IF p = 1 THEN 1..(Len(ProviderArgs) - 1) ELSE {Len(ProviderArgs)}

UseCacheOf(p) == IF p = 1 THEN BOOLEAN ELSE {TRUE}

\* f"{selected_provider_name}_{prompt}", call_llm.py:66
CacheKeyWithoutProvider(name, x) == x

CacheKeyOf(name, x) == name \o <<"_">> \o x

\* values of DEFAULT_LLM_PROVIDER a process may be started with: unset, empty,
\* the registered names, a registered name in another case, an unknown name
EnvDefaults ==
    <<PyNone, PyStr(<<>>), PyStr(S_openrouter), PyStr(S_groq), PyStr(S_togetherai),
      PyStr(<<"G","r","o","q">>), PyStr(<<"g","r","o","k">>)>>

\* contents of CACHE_FILE a process may find when it starts
InitFiles ==
    <<FileAbsent,
      FileGarbage,
      FileJson(JsonObject(<< <<CacheKeyOf(S_groq, S_a), <<"h","i">>>>,
                             <<CacheKeyOf(S_openrouter, S_a), <<"h","i">>>>,
                             <<CacheKeyOf(S_openrouter, S_a), <<"y","o">>>> >>)),
      FileJson(JsonArray(<<CacheKeyOf(S_groq, S_a)>>)),
      FileJson(JsonString(<<"x">> \o CacheKeyOf(S_groq, S_a))),
      FileJson(JsonNumber)>>

-----------------------------------------------------------------------------
(* call_llm, step by step *)

\* (provider or DEFAULT_PROVIDER).lower(), call_llm.py:53
ResolveDefaultOnly(P, default) == lower(default)

ResolveWithFallback(P, default) ==
    IF Truthy(P) /\ InProviderMap(lower(P.v)) THEN lower(P.v) ELSE lower(default)

ResolveCaseSensitive(P, default) == IF Truthy(P) THEN P.v ELSE default

ResolveProvider(P, default) == lower(IF Truthy(P) THEN P.v ELSE default)

\* "if use_cache:", call_llm.py:68
ConsultCacheAlways(uc) == TRUE

ConsultCache(uc) == uc

\* "except Exception as e: logger.error(...)" and "return response_text",
\* call_llm.py:108-111
OnSaveFailureRaise(text) == Raised("OSError", "Failed to save cache")

OnSaveFailure(text) == Returned(text)

\* "if cache_key in cache: return cache[cache_key]", call_llm.py:77-80
CacheLookupFirst(c, k) ==
    IF c.t = "dict" /\ Len(c.v) > 0
    THEN [kind |-> "hit", val |-> c.v[1][2]]
    ELSE [kind |-> "miss", val |-> <<>>]

CacheLookupMiss(c, k) == [kind |-> "miss", val |-> <<>>]

CacheLookup(c, k) ==
    LET has == PyContains(c, k) IN
    IF has.raised \/ (has.val /\ PyGetItemRaises(c))
    THEN [kind |-> "error", val |-> <<>>]
    ELSE IF has.val
    THEN [kind |-> "hit", val |-> DictGet(c.v, k)]
    ELSE [kind |-> "miss", val |-> <<>>]

\* the call runs beside another, or met an I/O failure
NoFile0 == [set |-> FALSE, file |-> FileAbsent]

\* the running call is not the second call of the demo
NoResponse1 == [set |-> FALSE, text |-> <<>>]

NoChain ==
    [active |-> FALSE, arg |-> PyNone, sel |-> <<>>, prompt |-> <<>>, text |-> <<>>]

InFlight(q) == pc[q] \notin {"idle", "done"}

\* The bookkeeping of runs of repeated calls, after a step of caller p.
\* fault: the step met a failure of cache file I/O.
Bookkeeping(p, fault) ==
    /\ role' = [role EXCEPT ![p] = IF fault THEN "none" ELSE @]
    /\ file0' = [file0 EXCEPT ![p] = IF fault THEN NoFile0 ELSE @]
    /\ chain' =
         IF fault /\ role[p] # "none" THEN NoChain
         ELSE IF pc'[p] = "done" /\ role[p] = "first"
         THEN IF result'[p].kind = "return"
              THEN [active |-> TRUE, arg |-> provider[p],
                    sel |-> selected_provider_name[p],
                    prompt |-> prompt[p], text |-> result'[p].val]
              ELSE NoChain
         ELSE chain

\* "if DEFAULT_PROVIDER not in PROVIDER_MAP: raise ValueError", call_llm.py:48
DefaultAcceptedAnyStr(e) == e.t = "str"

DefaultAccepted(e) == e.t = "str" /\ e.v \in DOMAIN PROVIDER_MAP

\* call_llm.py:39-49: the import of the module binds DEFAULT_PROVIDER to the
\* environment's value, or raises and leaves no module to call
Import ==
    /\ module = "importing"
    /\ IF DefaultAccepted(DEFAULT_LLM_PROVIDER)
       THEN /\ module' = "loaded"
            /\ DEFAULT_PROVIDER' = DEFAULT_LLM_PROVIDER.v
       ELSE /\ module' = "failed"
            /\ DEFAULT_PROVIDER' = DEFAULT_PROVIDER
    /\ UNCHANGED <<adapter, response1, DEFAULT_LLM_PROVIDER, file, pc, prompt, provider,
                   use_cache,
                   selected_provider_name, cache_key, response_text,
                   current_cache, result, log, invoked, io, wrote, missed,
                   role, chain, calls, file0>>

\* call_llm.py:52-66: resolve and validate the provider, log the prompt,
\* build the cache key
Call(p, x, P, uc) ==
    LET name == ResolveProvider(P, DEFAULT_PROVIDER)
        valid == InProviderMap(name)
        alone == \A q \in Procs \ {p} : ~InFlight(q)
        r == IF ~valid \/ ~uc \/ ~alone THEN "none"
             ELSE IF chain.active /\ chain.sel = name /\ chain.prompt = x
             THEN "later" ELSE "first"
        second == /\ valid /\ uc
                  /\ pc[p] = "done" /\ ~use_cache[p]
                  /\ result[p].kind = "return"
                  /\ selected_provider_name[p] = name /\ prompt[p] = x
                  /\ \A q \in Procs \ {p} : pc[q] = "idle"
    IN
    /\ module = "loaded"
    /\ pc[p] \in {"idle", "done"}
    /\ calls < MaxCalls
    /\ calls' = calls + 1
    /\ prompt' = [prompt EXCEPT ![p] = x]
    /\ provider' = [provider EXCEPT ![p] = P]
    /\ use_cache' = [use_cache EXCEPT ![p] = uc]
    /\ selected_provider_name' = [selected_provider_name EXCEPT ![p] = name]
    /\ response_text' = [response_text EXCEPT ![p] = <<>>]
    /\ current_cache' = [current_cache EXCEPT ![p] = PyNone]
    /\ invoked' = [invoked EXCEPT ![p] = <<>>]
    /\ io' = [io EXCEPT ![p] = <<>>]
    /\ wrote' = [wrote EXCEPT ![p] = FALSE]
    /\ missed' = [missed EXCEPT ![p] = {}]
    /\ role' = [q \in Procs |-> IF q = p THEN r ELSE "none"]
    /\ file0' = [q \in Procs |->
                     IF q = p /\ alone THEN [set |-> TRUE, file |-> file] ELSE NoFile0]
    /\ response1' = [response1 EXCEPT ![p] =
                        IF second THEN [set |-> TRUE, text |-> result[p].val]
                        ELSE NoResponse1]
    /\ chain' = IF r = "later" THEN chain ELSE NoChain
    /\ IF ~valid
       THEN /\ log' = [log EXCEPT ![p] =
                         <<LogRecord("ERROR", name, "Invalid provider", name)>>]
            /\ result' = [result EXCEPT ![p] = InvalidProvider(name)]
            /\ cache_key' = [cache_key EXCEPT ![p] = <<>>]
            /\ pc' = [pc EXCEPT ![p] = "done"]
       ELSE /\ log' = [log EXCEPT ![p] = <<LogRecord("INFO", name, "PROMPT", x)>>]
            /\ result' = [result EXCEPT ![p] = NoResult]
            /\ cache_key' = [cache_key EXCEPT ![p] = CacheKeyOf(name, x)]
            /\ pc' = [pc EXCEPT ![p] = IF ConsultCache(uc) THEN "read" ELSE "invoke"]
    /\ UNCHANGED <<adapter, DEFAULT_LLM_PROVIDER, module, DEFAULT_PROVIDER, file>>

\* call_llm.py:68-80: load the cache file and look the key up
Read(p) ==
    /\ pc[p] = "read"
    /\ \E ioerr \in BOOLEAN :
         LET exists == Exists(file)
             failed == exists /\ (ioerr \/ JsonLoadRaises(file))
             cache == IF exists /\ ~failed THEN json_load(file.v) ELSE PyDict(<<>>)
             tag == selected_provider_name[p]
             lg == IF failed
                   THEN Append(log[p], LogRecord("WARNING", tag, "Failed to load cache", <<>>))
                   ELSE log[p]
             found == CacheLookup(cache, cache_key[p])
         IN
         /\ io' = [io EXCEPT ![p] = IF exists THEN Append(@, "r") ELSE @]
         /\ CASE found.kind = "error" ->
                   /\ result' = [result EXCEPT ![p] = Raised("TypeError", "cache_key in cache")]
                   /\ log' = [log EXCEPT ![p] = lg]
                   /\ pc' = [pc EXCEPT ![p] = "done"]
              [] found.kind = "hit" ->
                   /\ result' = [result EXCEPT ![p] = Returned(found.val)]
                   /\ log' = [log EXCEPT ![p] =
                              Append(lg, LogRecord("INFO", tag, "RESPONSE (cached)", found.val))]
                   /\ pc' = [pc EXCEPT ![p] = "done"]
              [] OTHER ->
                   /\ result' = result
                   /\ log' = [log EXCEPT ![p] = lg]
                   /\ pc' = [pc EXCEPT ![p] = "invoke"]
         /\ Bookkeeping(p, failed)
    /\ UNCHANGED <<adapter, response1, DEFAULT_LLM_PROVIDER, module, DEFAULT_PROVIDER, file,
                   prompt, provider, use_cache,
                   selected_provider_name, cache_key, response_text,
                   current_cache, invoked, wrote, missed, calls>>

\* "except Exception as e: logger.error(...); raise", call_llm.py:87-91
OnProviderErrorSwallow(out) == Returned(<<>>)

OnProviderError(out) == out

\* the second "if use_cache:", call_llm.py:95
SaveToCacheAlways(uc) == TRUE

SaveToCache(uc) == uc

\* call_llm.py:82-95: call the selected adapter
Invoke(p) ==
    /\ pc[p] = "invoke"
    /\ \E api_key \in BOOLEAN, http \in HttpReplies, sdk \in SdkReplies :
         LET tag == selected_provider_name[p]
             fn == PROVIDER_MAP[tag]
             out == provider_function(fn, prompt[p], api_key, http, sdk)
         IN
         /\ invoked' = [invoked EXCEPT ![p] = Append(@, [fn |-> fn, prompt |-> prompt[p]])]
         /\ IF out.kind = "raise"
            THEN /\ log' = [log EXCEPT ![p] =
                            Append(@, LogRecord("ERROR", tag, "Error calling provider", <<>>))]
                 /\ result' = [result EXCEPT ![p] = OnProviderError(out)]
                 /\ response_text' = response_text
                 /\ pc' = [pc EXCEPT ![p] = "done"]
            ELSE /\ log' = [log EXCEPT ![p] =
                            Append(@, LogRecord("INFO", tag, "RESPONSE (API)", out.val))]
                 /\ IF SaveToCache(use_cache[p])
                    THEN /\ response_text' = [response_text EXCEPT ![p] = out.val]
                         /\ result' = result
                         /\ pc' = [pc EXCEPT ![p] = "reload"]
                    ELSE /\ response_text' = response_text
                         /\ result' = [result EXCEPT ![p] = Returned(out.val)]
                         /\ pc' = [pc EXCEPT ![p] = "done"]
    /\ Bookkeeping(p, FALSE)
    /\ UNCHANGED <<adapter, response1, DEFAULT_LLM_PROVIDER, module, DEFAULT_PROVIDER, file,
                   prompt, provider, use_cache,
                   selected_provider_name, cache_key, current_cache, io,
                   wrote, missed, calls>>

\* "current_cache[cache_key] = response_text", call_llm.py:104
PutEntrySkipped(d, k, x) == d

PutEntryAlone(d, k, x) == PyDict(<< <<k, x>> >>)

PutEntry(d, k, x) == PyDict(DictSet(d.v, k, x))

\* call_llm.py:95-104: load the file again and put the new entry in the copy
Reload(p) ==
    /\ pc[p] = "reload"
    /\ \E ioerr \in BOOLEAN :
         LET exists == Exists(file)
             failed == exists /\ (ioerr \/ JsonLoadRaises(file))
             cur == IF exists /\ ~failed THEN json_load(file.v) ELSE PyDict(<<>>)
             tag == selected_provider_name[p]
             lg == IF failed
                   THEN Append(log[p], LogRecord("WARNING", tag,
                                                 "Failed to load cache before saving", <<>>))
                   ELSE log[p]
         IN
         /\ io' = [io EXCEPT ![p] = IF exists THEN Append(@, "r") ELSE @]
         /\ log' = [log EXCEPT ![p] = lg]
         /\ IF PySetItemRaises(cur)
            THEN /\ result' = [result EXCEPT ![p] =
                               Raised("TypeError", "current_cache[cache_key] = response_text")]
                 /\ current_cache' = current_cache
                 /\ response_text' = [response_text EXCEPT ![p] = <<>>]
                 /\ pc' = [pc EXCEPT ![p] = "done"]
            ELSE /\ result' = result
                 /\ current_cache' = [current_cache EXCEPT ![p] =
                                      PutEntry(cur, cache_key[p], response_text[p])]
                 /\ response_text' = response_text
                 /\ pc' = [pc EXCEPT ![p] = "open_w"]
         /\ Bookkeeping(p, failed)
    /\ UNCHANGED <<adapter, response1, DEFAULT_LLM_PROVIDER, module, DEFAULT_PROVIDER, file,
                   prompt, provider, use_cache,
                   selected_provider_name, cache_key, invoked, wrote, missed,
                   calls>>

\* The dict that json.dump is given at call_llm.py:107 is the copy made at
\* call_llm.py:100-104; what the file holds when it is opened is not looked at.
ToWriteMerged(cur, onDisk) ==
    IF onDisk.k = "json" /\ onDisk.v.t = "object"
    THEN PyDict(LoadPairs(cur.v, LoadPairs(onDisk.v.v, <<>>)))
    ELSE cur

ToWrite(cur, onDisk) == cur

\* call_llm.py:105-106: open(CACHE_FILE, "w") truncates the file, or fails
OpenW(p) ==
    /\ pc[p] = "open_w"
    /\ io' = [io EXCEPT ![p] = Append(@, "w")]
    /\ \E ok \in BOOLEAN :
         IF ok
         THEN /\ file' = FileEmpty
              /\ wrote' = [q \in Procs |-> FALSE]
              /\ log' = log
              /\ result' = result
              /\ response_text' = response_text
              /\ current_cache' = [current_cache EXCEPT ![p] = ToWrite(@, file)]
              /\ pc' = [pc EXCEPT ![p] = "dump"]
              /\ Bookkeeping(p, FALSE)
         ELSE /\ file' = file
              /\ wrote' = wrote
              /\ log' = [log EXCEPT ![p] =
                         Append(@, LogRecord("ERROR", selected_provider_name[p],
                                             "Failed to save cache", <<>>))]
              /\ result' = [result EXCEPT ![p] = OnSaveFailure(response_text[p])]
              /\ response_text' = [response_text EXCEPT ![p] = <<>>]
              /\ current_cache' = [current_cache EXCEPT ![p] = PyNone]
              /\ pc' = [pc EXCEPT ![p] = "done"]
              /\ Bookkeeping(p, TRUE)
    /\ UNCHANGED <<adapter, response1, DEFAULT_LLM_PROVIDER, module, DEFAULT_PROVIDER,
                   prompt, provider, use_cache,
                   selected_provider_name, cache_key, invoked, missed, calls>>

\* ways json.dump and the close of the handle can end
DumpOutcomes == {"written", "clobbered", "failed_partial", "failed_nothing"}

\* call_llm.py:107-111: write the copy, close the file, return the response
Dump(p) ==
    /\ pc[p] = "dump"
    /\ \E o \in DumpOutcomes :
         LET done == o \in {"written", "clobbered"}
             after == CASE done -> WriteAtZero(file, current_cache[p], o = "clobbered")
                        [] o = "failed_partial" -> FileGarbage
                        [] OTHER -> file
             intact == done /\ after.k = "json"
         IN
         /\ file' = after
         /\ wrote' = [q \in Procs |-> q = p /\ intact]
         /\ missed' = [q \in Procs |->
                         IF /\ q # p /\ intact /\ pc[q] \in {"open_w", "dump"}
                            /\ cache_key[p] \notin DictKeys(current_cache[q].v)
                         THEN missed[q] \cup {cache_key[p]} ELSE missed[q]]
         /\ log' = [log EXCEPT ![p] =
                      IF done THEN @
                      ELSE Append(@, LogRecord("ERROR", selected_provider_name[p],
                                               "Failed to save cache", <<>>))]
         /\ result' = [result EXCEPT ![p] =
                         IF done THEN Returned(response_text[p])
                         ELSE OnSaveFailure(response_text[p])]
         /\ response_text' = [response_text EXCEPT ![p] = <<>>]
         /\ current_cache' = [current_cache EXCEPT ![p] = PyNone]
         /\ pc' = [pc EXCEPT ![p] = "done"]
         /\ Bookkeeping(p, ~intact)
    /\ UNCHANGED <<adapter, response1, DEFAULT_LLM_PROVIDER, module, DEFAULT_PROVIDER,
                   prompt, provider, use_cache,
                   selected_provider_name, cache_key, invoked, io, calls>>

-----------------------------------------------------------------------------
(* The adapter functions, step by step *)

\* values an API-key environment variable may have: unset, empty, set
ApiKeys == <<PyNone, PyStr(<<>>), PyStr(<<"k">>)>>

\* os.getenv(name, default): the value, or default when the variable is unset
getenv(value, default) == IF value.t = "None" THEN default ELSE value

\* the default each adapter passes to os.getenv for its key
KeyDefault(fn) == IF fn = "call_openrouter" THEN PyStr(<<>>) ELSE PyNone

\* the name of each adapter's key variable
KeyName(fn) ==
    CASE fn = "call_openrouter" -> "OPENROUTER_API_KEY"
      [] fn = "call_groq" -> "GROQ_API_KEY"
      [] OTHER -> "TOGETHERAI_API_KEY"

\* the name each adapter gives the upstream in its messages
ApiName(fn) ==
    CASE fn = "call_openrouter" -> "OpenRouter"
      [] fn = "call_groq" -> "Groq"
      [] OTHER -> "TogetherAI"

\* "if not api_key:", line 12 of each adapter
KeyMissingOnlyUnset(api_key) == api_key.t = "None"

KeyMissing(api_key) == ~Truthy(api_key)

\* str() of a status code inside an f-string
Str(n) ==
    CASE n = 200 -> "200"
      [] n = 201 -> "201"
      [] n = 404 -> "404"
      [] OTHER -> "500"

\* what an adapter gives its caller; msg is the text of the exception, in
\* the pieces the f-string puts together
NoOutcome == [kind |-> "none", val |-> PyNone, exc |-> "", msg |-> <<>>]

Gave(v) == [NoOutcome EXCEPT !.kind = "return", !.val = v]

Failed(type, msg) == [NoOutcome EXCEPT !.kind = "raise", !.exc = type, !.msg = msg]

\* a JSON body whose choices[0].message.content is c
Completion(c) ==
    PyDict(<< <<"choices",
                PyList(<<PyDict(<< <<"message",
                                     PyDict(<< <<"content", c>> >>)>> >>)>>)>> >>)

\* response.json() raises on this body
NotJson == [t |-> "invalid", v |-> <<>>]

\* responses of the OpenRouter endpoint: status, body text, body as JSON
HttpResponses ==
    <<[status_code |-> 200, text |-> "{hi}", json |-> Completion(PyStr(<<"h","i">>))],
      [status_code |-> 200, text |-> "{empty}", json |-> Completion(PyStr(<<>>))],
      [status_code |-> 200, text |-> "{null}", json |-> Completion(PyNone)],
      [status_code |-> 200, text |-> "{number}", json |-> Completion(PyInt)],
      [status_code |-> 200, text |-> "{no content}",
       json |-> PyDict(<< <<"choices",
                            PyList(<<PyDict(<< <<"message", PyDict(<<>>)>> >>)>>)>> >>)],
      [status_code |-> 200, text |-> "{no message}",
       json |-> PyDict(<< <<"choices", PyList(<<PyDict(<<>>)>>)>> >>)],
      [status_code |-> 200, text |-> "{no choice}",
       json |-> PyDict(<< <<"choices", PyList(<<>>)>> >>)],
      [status_code |-> 200, text |-> "{}", json |-> PyDict(<<>>)],
      [status_code |-> 200, text |-> "<html>", json |-> NotJson],
      [status_code |-> 201, text |-> "{hi}", json |-> Completion(PyStr(<<"h","i">>))],
      [status_code |-> 404, text |-> "Not Found", json |-> NotJson],
      [status_code |-> 500, text |-> "Internal Server Error", json |-> NotJson]>>

\* f"OpenRouter API call failed with status {response.status_code}: {response.text}"
StatusMessageWithoutBody(r) ==
    <<"OpenRouter API call failed with status ", Str(r.status_code)>>

StatusMessage(r) ==
    <<"OpenRouter API call failed with status ", Str(r.status_code), ": ", r.text>>

\* "not v" for a JSON value
Falsy(v) == v.t = "None" \/ (v.t \in {"str", "list", "dict"} /\ Len(v.v) = 0)

\* d.get(k, default) on a dict
DictGetOr(d, k, default) == IF k \in DictKeys(d.v) THEN DictGet(d.v, k) ELSE default

\* "if response_text is None:", openrouter.py:51
IsNoneOrEmpty(v) == v.t = "None" \/ (v.t = "str" /\ Len(v.v) = 0)

IsNone(v) == v.t = "None"

\* f"Failed to parse OpenRouter response: {e}; Response: {response.text}"
ParseMessage(e, r) ==
    <<"Failed to parse OpenRouter response: ", e, "; Response: ", r.text>>

\* openrouter.py:41-61: every exception inside the try, those the code raises
\* itself included, leaves as Exception(ParseMessage)
ParseOpenRouter(r) ==
    LET response_json == r.json IN
    IF response_json.t = "invalid"
    THEN Failed("Exception", ParseMessage("Expecting value", r))
    ELSE IF response_json.t # "dict"
    THEN Failed("Exception", ParseMessage("TypeError", r))
    ELSE IF \/ "choices" \notin DictKeys(response_json.v)
            \/ Falsy(DictGet(response_json.v, "choices"))
    THEN Failed("Exception",
                ParseMessage("OpenRouter response does not contain 'choices'", r))
    ELSE LET first == DictGet(response_json.v, "choices").v[1] IN
         IF first.t # "dict"
         THEN Failed("Exception", ParseMessage("AttributeError", r))
         ELSE LET message == DictGetOr(first, "message", PyDict(<<>>)) IN
              IF message.t # "dict"
              THEN Failed("Exception", ParseMessage("AttributeError", r))
              ELSE LET text == DictGetOr(message, "content", PyNone) IN
                   IF IsNone(text)
                   THEN Failed("Exception",
                               ParseMessage("Failed to parse OpenRouter response, 'content' is missing", r))
                   ELSE Gave(text)

NoResponse == [status_code |-> 0, text |-> "", json |-> NotJson]

NoAdapter ==
    [pc |-> "idle", fn |-> "", prompt |-> <<>>, env |-> PyNone,
     response |-> NoResponse, upstream |-> <<>>, log |-> <<>>,
     outcome |-> NoOutcome]

AdapterLog(level, msg) == [level |-> level, msg |-> msg]

\* a caller invokes the adapter function fn on prompt x, in an environment
\* where the adapter's key variable is k
AdapterEnter(fn, x, k) ==
    /\ adapter.pc = "idle"
    /\ adapter' = [NoAdapter EXCEPT !.pc = "key", !.fn = fn, !.prompt = x, !.env = k]
    /\ UNCHANGED callvars

\* lines 11-19 of groq.py and togetherai.py, 11-29 of openrouter.py
AdapterCheckKey ==
    /\ adapter.pc = "key"
    /\ LET api_key == getenv(adapter.env, KeyDefault(adapter.fn))
           error_msg == <<KeyName(adapter.fn), " is not set.">>
       IN
       IF KeyMissing(api_key)
       THEN adapter' = [adapter EXCEPT
                          !.pc = "done",
                          !.log = Append(@, AdapterLog("ERROR", error_msg)),
                          !.outcome = Failed("ValueError", error_msg)]
       ELSE adapter' = [adapter EXCEPT
                          !.pc = IF adapter.fn = "call_openrouter" THEN "post" ELSE "client",
                          !.log = Append(@, AdapterLog("INFO",
                                     <<"Calling ", ApiName(adapter.fn), " API with model">>))]
    /\ UNCHANGED callvars

\* one requests.post (openrouter.py:30) or one chain.invoke (groq.py:30,
\* togetherai.py:34) is recorded in the adapter's upstream traffic
RequestWithRetry(u, what) == Append(Append(u, what), what)

Request(u, what) == Append(u, what)

\* openrouter.py:30-34: requests.post, outside any try: a transport failure
\* (i = 0) leaves the adapter as the exception requests raised
AdapterPost ==
    /\ adapter.pc = "post"
    /\ \E i \in 0..Len(HttpResponses) :
         adapter' =
            IF i = 0
            THEN [adapter EXCEPT
                    !.pc = "done",
                    !.upstream = Request(@, "POST"),
                    !.outcome = Failed("ConnectionError", <<"Max retries exceeded">>)]
            ELSE [adapter EXCEPT
                    !.pc = "status",
                    !.upstream = Request(@, "POST"),
                    !.response = HttpResponses[i]]
    /\ UNCHANGED callvars

\* openrouter.py:36-39
AdapterStatus ==
    /\ adapter.pc = "status"
    /\ LET response == adapter.response IN
       IF response.status_code # 200
       THEN adapter' = [adapter EXCEPT
                          !.pc = "done",
                          !.log = Append(@, AdapterLog("ERROR", StatusMessage(response))),
                          !.outcome = Failed("Exception", StatusMessage(response))]
       ELSE adapter' = [adapter EXCEPT !.pc = "parse"]
    /\ UNCHANGED callvars

\* openrouter.py:41-61
AdapterParse ==
    /\ adapter.pc = "parse"
    /\ LET out == ParseOpenRouter(adapter.response) IN
       adapter' = [adapter EXCEPT
                     !.pc = "done",
                     !.log = IF out.kind = "raise"
                             THEN Append(@, AdapterLog("ERROR", out.msg)) ELSE @,
                     !.outcome = out]
    /\ UNCHANGED callvars

\* f"Groq API call failed: {e}" and f"TogetherAI API call failed: {e}"
SdkMessage(fn, e) == <<ApiName(fn), " API call failed: ", e>>

\* groq.py:21-22 and 32-35, togetherai.py:21-27 and 36-39: the SDK client is
\* built
AdapterClient ==
    /\ adapter.pc = "client"
    /\ \E ok \in BOOLEAN :
         adapter' =
            IF ok
            THEN [adapter EXCEPT !.pc = "chain", !.upstream = Append(@, "client")]
            ELSE [adapter EXCEPT
                    !.pc = "done",
                    !.upstream = Append(@, "client"),
                    !.log = Append(@, AdapterLog("ERROR",
                                         SdkMessage(adapter.fn, "client error"))),
                    !.outcome = Failed("Exception",
                                       SdkMessage(adapter.fn, "client error"))]
    /\ UNCHANGED callvars

\* groq.py:25-37, togetherai.py:29-41: the chain is invoked on the prompt
AdapterChain ==
    /\ adapter.pc = "chain"
    /\ \E reply \in SdkReplies :
         adapter' =
            IF reply.ok
            THEN [adapter EXCEPT
                    !.pc = "done",
                    !.upstream = Request(@, "invoke"),
                    !.outcome = Gave(PyStr(reply.text))]
            ELSE [adapter EXCEPT
                    !.pc = "done",
                    !.upstream = Request(@, "invoke"),
                    !.log = Append(@, AdapterLog("ERROR",
                                         SdkMessage(adapter.fn, "upstream error"))),
                    !.outcome = Failed("Exception",
                                       SdkMessage(adapter.fn, "upstream error"))]
    /\ UNCHANGED callvars

-----------------------------------------------------------------------------
(* The specification *)

\* no call_llm call was made yet
Quiet ==
    /\ pc = [p \in Procs |-> "idle"]
    /\ prompt = [p \in Procs |-> <<>>]
    /\ provider = [p \in Procs |-> PyNone]
    /\ use_cache = [p \in Procs |-> TRUE]
    /\ selected_provider_name = [p \in Procs |-> <<>>]
    /\ cache_key = [p \in Procs |-> <<>>]
    /\ response_text = [p \in Procs |-> <<>>]
    /\ current_cache = [p \in Procs |-> PyNone]
    /\ result = [p \in Procs |-> NoResult]
    /\ log = [p \in Procs |-> <<>>]
    /\ invoked = [p \in Procs |-> <<>>]
    /\ io = [p \in Procs |-> <<>>]
    /\ wrote = [p \in Procs |-> FALSE]
    /\ missed = [p \in Procs |-> {}]
    /\ role = [p \in Procs |-> "none"]
    /\ chain = NoChain
    /\ calls = 0
    /\ file0 = [p \in Procs |-> NoFile0]
    /\ response1 = [p \in Procs |-> NoResponse1]

\* The process has started and is about to import call_llm.py: the
\* environment is set, no call was made yet, CACHE_FILE holds whatever an
\* earlier process or the user left there.
Init ==
    /\ \E i \in 1..Len(EnvDefaults) : DEFAULT_LLM_PROVIDER = EnvDefaults[i]
    /\ module = "importing"
    /\ DEFAULT_PROVIDER = <<>>
    /\ \E i \in 1..Len(InitFiles) : file = InitFiles[i]
    /\ Quiet
    /\ adapter = NoAdapter

Next ==
    \/ Import
    \/ \E p \in Procs :
           \/ \E x \in PromptsOf(p), i \in ProviderArgsOf(p), uc \in UseCacheOf(p) :
                  Call(p, x, ProviderArgs[i], uc)
           \/ Read(p)
           \/ Invoke(p)
           \/ Reload(p)
           \/ OpenW(p)
           \/ Dump(p)

Spec == Init /\ [][Next]_vars

\* An adapter function called on its own, as tests/utils/test_call_llm.py
\* does: nothing of call_llm runs.
AdapterInit ==
    /\ DEFAULT_LLM_PROVIDER = PyNone
    /\ module = "importing"
    /\ DEFAULT_PROVIDER = <<>>
    /\ file = FileAbsent
    /\ Quiet
    /\ adapter = NoAdapter

AdapterNext ==
    \/ \E n \in DOMAIN PROVIDER_MAP, x \in Prompts, i \in 1..Len(ApiKeys) :
           AdapterEnter(PROVIDER_MAP[n], x, ApiKeys[i])
    \/ AdapterCheckKey
    \/ AdapterPost
    \/ AdapterStatus
    \/ AdapterParse
    \/ AdapterClient
    \/ AdapterChain

AdapterSpec == AdapterInit /\ [][AdapterNext]_vars

-----------------------------------------------------------------------------
(* Vocabulary of the properties *)

\* the documented key of the running call: "<provider>_<prompt>"
KeyOfCall(p) == selected_provider_name[p] \o <<"_">> \o prompt[p]

\* the call of p got past the provider check
Dispatched(p) == pc[p] # "idle" /\ InProviderMap(selected_provider_name[p])

Logged(lg, msg) == \E i \in 1..Len(lg) : lg[i].msg = msg

\* the text of the record msg, or a text no record has
LoggedText(lg, msg) ==
    IF Logged(lg, msg)
    THEN lg[CHOOSE i \in 1..Len(lg) : lg[i].msg = msg].text
    ELSE <<"no such record">>

CacheFault(lg) ==
    \/ Logged(lg, "Failed to load cache")
    \/ Logged(lg, "Failed to load cache before saving")
    \/ Logged(lg, "Failed to save cache")

\* the file is a JSON object, and the keys it maps
IsObject(f) == f.k = "json" /\ f.v.t = "object"

KeysOnDisk(f) == IF IsObject(f) THEN {f.v.v[i][1] : i \in 1..Len(f.v.v)} ELSE {}

\* the value a JSON object maps k to: that of the last member named k
ValueOnDisk(f, k) ==
    LET pairs == f.v.v
        last == CHOOSE i \in 1..Len(pairs) :
                    /\ pairs[i][1] = k
                    /\ \A j \in (i + 1)..Len(pairs) : pairs[j][1] # k
    IN pairs[last][2]

\* the adapter the registry holds for a provider argument: an argument left
\* out (None, or the empty string, which "provider or DEFAULT_PROVIDER" treats
\* alike) stands for the default
ExpectedProvider(P) == IF P.t = "str" /\ P.v # <<>> THEN lower(P.v) ELSE DEFAULT_PROVIDER

-----------------------------------------------------------------------------
(* C1 *)

\* C1: when a call with use_cache=true reads the cache file and what it reads
\* is a JSON object holding the key of (provider, prompt), the call ends right
\* there, returns the stored value and has invoked no adapter.
C1_CacheHit ==
    [][\A p \in Procs :
          ( /\ pc[p] = "read"
            /\ pc'[p] # "read"
            /\ ~Logged(log'[p], "Failed to load cache")
            /\ KeyOfCall(p) \in KeysOnDisk(file) )
          => /\ pc'[p] = "done"
             /\ result'[p] = Returned(ValueOnDisk(file, KeyOfCall(p)))
             /\ invoked'[p] = <<>>]_vars

C1_Witness ==
    \E p \in Procs :
        /\ pc[p] = "done"
        /\ use_cache[p]
        /\ Logged(log[p], "RESPONSE (cached)")
        /\ result[p].kind = "return"
        /\ invoked[p] = <<>>

(* C2 *)

\* C2: in a run of non-overlapping calls call_llm(X, P, use_cache=true) whose
\* cache file I/O succeeds, once the first call has returned a text, no later
\* call of the run invokes an adapter and each returns that same text.
C2_RoundTrip ==
    \A p \in Procs :
        role[p] = "later" =>
            /\ invoked[p] = <<>>
            /\ pc[p] = "done" => result[p] = Returned(chain.text)

C2_Witness ==
    \E p \in Procs :
        /\ role[p] = "later"
        /\ pc[p] = "done"
        /\ chain.active
        /\ result[p] = Returned(chain.text)
        /\ Logged(log[p], "RESPONSE (cached)")

(* C3 *)

Alphabet == {"_", "a", "g"}

PromptsUpTo(n) == UNION {[1..m -> Alphabet] : m \in 0..n}

\* C3: the keys of two distinct (registered provider, prompt) pairs differ:
\* for all prompts over Alphabet up to MaxPromptLen (the key is a function of
\* the pair alone, so the pairs are compared once, before the first call),
\* and no pair of a provider and a prompt that callers pass, other than its
\* own, has the key of a call in progress; two calls in progress with the same
\* key are calls for the same pair.
C3_KeysDoNotCollide ==
    /\ calls = 0 =>
         \A n1, n2 \in DOMAIN PROVIDER_MAP :
            \A x1, x2 \in PromptsUpTo(MaxPromptLen) :
               CacheKeyOf(n1, x1) = CacheKeyOf(n2, x2) => n1 = n2 /\ x1 = x2
    /\ \A p \in Procs :
         Dispatched(p) =>
            \A n \in DOMAIN PROVIDER_MAP :
               \A x \in Prompts :
                  CacheKeyOf(n, x) = cache_key[p]
                  => n = selected_provider_name[p] /\ x = prompt[p]
    /\ \A p, q \in Procs :
         (Dispatched(p) /\ Dispatched(q) /\ cache_key[p] = cache_key[q])
         => /\ selected_provider_name[p] = selected_provider_name[q]
            /\ prompt[p] = prompt[q]

\* a hit for one provider while the file holds a different answer to the same
\* prompt for another provider
C3_Witness ==
    \E p \in Procs :
        /\ pc[p] = "done"
        /\ Logged(log[p], "RESPONSE (cached)")
        /\ \E n \in DOMAIN PROVIDER_MAP :
              /\ n # selected_provider_name[p]
              /\ CacheKeyOf(n, prompt[p]) \in KeysOnDisk(file)
              /\ cache_key[p] \in KeysOnDisk(file)
              /\ ValueOnDisk(file, CacheKeyOf(n, prompt[p])) # result[p].val
              /\ ValueOnDisk(file, cache_key[p]) = result[p].val

(* C4 *)

\* C4: a call with use_cache=false on a registered provider never opens the
\* cache file and, when it ends, has invoked the adapter of its provider
\* exactly once; no call invokes an adapter more than once.
C4_NoCacheBypass ==
    \A p \in Procs :
        /\ Len(invoked[p]) <= 1
        /\ (Dispatched(p) /\ ~use_cache[p]) =>
              /\ io[p] = <<>>
              /\ ~Logged(log[p], "RESPONSE (cached)")
              /\ pc[p] = "done" =>
                    invoked[p] = <<[fn |-> PROVIDER_MAP[selected_provider_name[p]],
                                    prompt |-> prompt[p]]>>

\* such a call made while the file holds an entry for its key
C4_Witness ==
    \E p \in Procs :
        /\ pc[p] = "done"
        /\ Dispatched(p)
        /\ ~use_cache[p]
        /\ KeyOfCall(p) \in KeysOnDisk(file)
        /\ Len(invoked[p]) = 1

(* C5 *)

\* C5 as stated: a call whose given provider identifier is not registered
\* after lowercasing fails with the unknown-provider error, invokes no
\* adapter and does not open the cache file.
C5_UnknownProvider_AsStated ==
    \A p \in Procs :
        (pc[p] = "done" /\ provider[p].t = "str" /\ ~InProviderMap(lower(provider[p].v)))
        => /\ result[p] = InvalidProvider(lower(provider[p].v))
           /\ invoked[p] = <<>>
           /\ io[p] = <<>>

\* C5, amended: a call whose given provider identifier is not empty and is
\* not registered after lowercasing ends at once with the unknown-provider
\* error naming the lowercased identifier and listing the registered
\* providers, has invoked no adapter and has not opened the cache file.
C5_UnknownProvider ==
    \A p \in Procs :
        ( /\ pc[p] # "idle"
          /\ provider[p].t = "str"
          /\ provider[p].v # <<>>
          /\ ~InProviderMap(lower(provider[p].v)) )
        => /\ pc[p] = "done"
           /\ result[p] = InvalidProvider(lower(provider[p].v))
           /\ result[p].available = ProviderKeys
           /\ Logged(log[p], "Invalid provider")
           /\ ~Logged(log[p], "PROMPT")
           /\ invoked[p] = <<>>
           /\ io[p] = <<>>

C5_Witness ==
    \E p \in Procs :
        /\ pc[p] = "done"
        /\ provider[p] = PyStr(<<"g","r","o","k">>)
        /\ result[p].kind = "raise"
        /\ result[p].what = "Invalid provider"

(* C6 *)

C7_CacheFaultsNeverFail ==
    \A p \in Procs :
        (pc[p] = "done" /\ Dispatched(p) /\ use_cache[p]) =>
            /\ result[p].kind = "raise" =>
                  /\ Len(invoked[p]) = 1
                  /\ log[p][Len(log[p])].msg = "Error calling provider"
            /\ result[p].kind = "return" =>
                  \/ Logged(log[p], "RESPONSE (cached)")
                  \/ result[p].val = LoggedText(log[p], "RESPONSE (API)")

(* C8 *)

\* C8: a call whose write of the cache file failed has invoked its adapter
\* once, raises nothing and returns the response that adapter gave.
C8_WriteFailureNonFatal ==
    \A p \in Procs :
        (pc[p] = "done" /\ Logged(log[p], "Failed to save cache")) =>
            /\ Len(invoked[p]) = 1
            /\ Logged(log[p], "RESPONSE (API)")
            /\ result[p] = Returned(LoggedText(log[p], "RESPONSE (API)"))

C8_Witness ==
    \E p \in Procs :
        /\ pc[p] = "done"
        /\ use_cache[p]
        /\ Logged(log[p], "Failed to save cache")
        /\ result[p].kind = "return"
        /\ file.k \in {"empty", "garbage"}

(* C9 *)

\* a complete snapshot: no file, or a JSON object
IsSnapshot(f) == f.k = "absent" \/ IsObject(f)

\* C9: no step takes the cache file from a complete snapshot (or no file) to
\* something else, nor removes or changes an entry that was on disk.
C9_SnapshotValid ==
    [][IsSnapshot(file) =>
          /\ IsSnapshot(file')
          /\ \A k \in KeysOnDisk(file) :
                /\ k \in KeysOnDisk(file')
                /\ ValueOnDisk(file', k) = ValueOnDisk(file, k)]_vars

(* C10 *)

\* C10: when a call q has written the file and it is still as q wrote it, q
\* has returned its own response, the file holds the entry of q, and every
\* entry that another call wrote between q's reload and q's write, and that
\* q's reload had not seen, is missing from the file.
C10_LostUpdate ==
    \A q \in Procs :
        (pc[q] = "done" /\ wrote[q]) =>
            /\ result[q] = Returned(LoggedText(log[q], "RESPONSE (API)"))
            /\ IsObject(file)
            /\ KeyOfCall(q) \in KeysOnDisk(file)
            /\ ValueOnDisk(file, KeyOfCall(q)) = result[q].val
            /\ \A k \in missed[q] : k \notin KeysOnDisk(file)

\* two overlapping calls for different keys, neither met an I/O failure, both
\* returned their own responses; the file holds the later writer's entry only
C10_Witness ==
    \E p, q \in Procs :
        /\ p # q
        /\ pc[p] = "done" /\ pc[q] = "done"
        /\ use_cache[p] /\ use_cache[q]
        /\ cache_key[p] # cache_key[q]
        /\ ~CacheFault(log[p]) /\ ~CacheFault(log[q])
        /\ result[p] = Returned(LoggedText(log[p], "RESPONSE (API)"))
        /\ result[q] = Returned(LoggedText(log[q], "RESPONSE (API)"))
        /\ wrote[q]
        /\ cache_key[p] \in missed[q]
        /\ cache_key[q] \in KeysOnDisk(file)
        /\ cache_key[p] \notin KeysOnDisk(file)

(* C11 *)

\* the errors an adapter function can raise
ErrorsOf(fn) ==
    CASE fn = "call_openrouter" ->
            {Raised("ValueError", "OPENROUTER_API_KEY is not set."),
             Raised("Exception", "OpenRouter API call failed with status"),
             Raised("Exception", "Failed to parse OpenRouter response")}
      [] fn = "call_groq" ->
            {Raised("ValueError", "GROQ_API_KEY is not set."),
             Raised("Exception", "Groq API call failed")}
      [] OTHER ->
            {Raised("ValueError", "TOGETHERAI_API_KEY is not set."),
             Raised("Exception", "TogetherAI API call failed")}

\* C11: a call whose adapter failed has ended, gives its caller an error of
\* that adapter, logged the failure as its last record, invoked the adapter of
\* its provider once and no other adapter, and did not open the cache file for
\* writing.
C11_ProviderFailureTerminal ==
    \A p \in Procs :
        Logged(log[p], "Error calling provider") =>
            /\ pc[p] = "done"
            /\ result[p] \in ErrorsOf(PROVIDER_MAP[selected_provider_name[p]])
            /\ log[p][Len(log[p])].msg = "Error calling provider"
            /\ invoked[p] = <<[fn |-> PROVIDER_MAP[selected_provider_name[p]],
                               prompt |-> prompt[p]]>>
            /\ \A i \in 1..Len(io[p]) : io[p][i] # "w"
            /\ ~Logged(log[p], "RESPONSE (API)")

\* the adapter of a call that uses the cache failed upstream, after a miss
C11_Witness ==
    \E p \in Procs :
        /\ pc[p] = "done"
        /\ use_cache[p]
        /\ io[p] = <<"r">>
        /\ result[p] = Raised("Exception", "Groq API call failed")
        /\ Logged(log[p], "Error calling provider")
        /\ cache_key[p] \notin KeysOnDisk(file)

(* C12 *)

\* C12: the import fails exactly when DEFAULT_LLM_PROVIDER is unset or is not
\* a key of PROVIDER_MAP, and then no call_llm call is ever made; a call made
\* with the provider left out runs under a default that is a key of
\* PROVIDER_MAP and does not fail with the unknown-provider error.
C12_FailFastDefault ==
    /\ module # "importing" =>
          (module = "failed" <=>
              \/ DEFAULT_LLM_PROVIDER = PyNone
              \/ ~InProviderMap(DEFAULT_LLM_PROVIDER.v))
    /\ module # "loaded" => calls = 0 /\ \A p \in Procs : pc[p] = "idle"
    /\ \A p \in Procs :
          (pc[p] # "idle" /\ provider[p] = PyNone) =>
              /\ InProviderMap(DEFAULT_PROVIDER)
              /\ selected_provider_name[p] = DEFAULT_PROVIDER
              /\ pc[p] = "done" => result[p] # InvalidProvider(selected_provider_name[p])
              /\ ~Logged(log[p], "Invalid provider")

\* a process whose import failed, and one whose call with the provider left
\* out was answered by the default's adapter
C12_WitnessFailed ==
    /\ module = "failed"
    /\ DEFAULT_LLM_PROVIDER = PyStr(<<"G","r","o","q">>)

C12_Witness ==
    \E p \in Procs :
        /\ pc[p] = "done"
        /\ provider[p] = PyNone
        /\ DEFAULT_LLM_PROVIDER = PyStr(S_togetherai)
        /\ invoked[p] = <<[fn |-> "call_togetherai", prompt |-> prompt[p]]>>
        /\ result[p].kind = "return"

(* C13 *)

\* C13: an adapter invoked while its API-key variable is unset or empty makes
\* no upstream request (no POST, no SDK client, no chain invocation) and ends
\* with the missing-credential error naming its variable.
C13_MissingCredential ==
    (adapter.pc # "idle" /\ (adapter.env.t = "None" \/ adapter.env.v = <<>>)) =>
        /\ adapter.upstream = <<>>
        /\ adapter.pc \in {"key", "done"}
        /\ adapter.pc = "done" =>
              /\ adapter.outcome =
                    Failed("ValueError", <<KeyName(adapter.fn), " is not set.">>)
              /\ adapter.log[Len(adapter.log)].level = "ERROR"

\* the SDK adapter of Groq refused an empty key
C13_Witness ==
    /\ adapter.pc = "done"
    /\ adapter.fn = "call_groq"
    /\ adapter.env = PyStr(<<>>)
    /\ adapter.outcome.exc = "ValueError"
    /\ adapter.upstream = <<>>

(* C14 *)

\* the text of an exception contains the piece part
Contains(msg, part) == \E i \in 1..Len(msg) : msg[i] = part

\* C14: when the OpenRouter endpoint answered with a status s outside 200..299
\* and body b, call_openrouter ends with an error whose message contains s and
\* b, and returns no text.
C14_HttpStatusError ==
    ( /\ adapter.fn = "call_openrouter"
      /\ adapter.pc = "done"
      /\ adapter.response.status_code # 0
      /\ adapter.response.status_code \notin 200..299 ) =>
        /\ adapter.outcome.kind = "raise"
        /\ adapter.outcome.val = PyNone
        /\ Contains(adapter.outcome.msg, Str(adapter.response.status_code))
        /\ Contains(adapter.outcome.msg, adapter.response.text)

\* the scenario of the specification: status 500, body "Internal Server Error"
C14_Witness ==
    /\ adapter.pc = "done"
    /\ adapter.response.status_code = 500
    /\ adapter.response.text = "Internal Server Error"
    /\ adapter.outcome.kind = "raise"
    /\ adapter.upstream = <<"POST">>

(* C15 *)

\* C15: when a caller's call_llm(X, P, use_cache=False) returned a response
\* and its next call is call_llm(X, P, use_cache=True), no other caller having
\* made a call, that second call invokes no adapter and returns the response
\* of the first.
C15_DemoSecondCallCached ==
    \A p \in Procs :
        response1[p].set =>
            /\ invoked[p] = <<>>
            /\ pc[p] = "done" => result[p] = Returned(response1[p].text)

(* C16 *)

\* C16: a call that missed and got r from its adapter builds, when its
\* reload succeeds, a copy that maps its key to r and every other key of the
\* file it reloaded to the value the file gave it, and nothing else; it keeps
\* that copy until it writes; and when its write succeeds on the file it
\* truncated, the file maps exactly the keys of the copy to the values of the
\* copy, and the call returns r.
C16_PutPreservesSnapshot ==
    [][\A p \in Procs :
          /\ ( /\ pc[p] = "reload" /\ pc'[p] = "open_w"
               /\ ~Logged(log'[p], "Failed to load cache before saving") ) =>
                /\ DictKeys(current_cache'[p].v) = KeysOnDisk(file) \cup {KeyOfCall(p)}
                /\ DictGet(current_cache'[p].v, KeyOfCall(p))
                      = LoggedText(log[p], "RESPONSE (API)")
                /\ \A k \in KeysOnDisk(file) \ {KeyOfCall(p)} :
                      DictGet(current_cache'[p].v, k) = ValueOnDisk(file, k)
          /\ (pc[p] = "open_w" /\ pc'[p] = "dump") =>
                current_cache'[p] = current_cache[p]
          /\ ( /\ pc[p] = "dump" /\ pc'[p] = "done"
               /\ ~Logged(log'[p], "Failed to save cache")
               /\ file.k = "empty" ) =>
                /\ IsObject(file')
                /\ KeysOnDisk(file') = DictKeys(current_cache[p].v)
                /\ \A k \in KeysOnDisk(file') :
                      ValueOnDisk(file', k) = DictGet(current_cache[p].v, k)
                /\ result'[p] = Returned(DictGet(current_cache[p].v, KeyOfCall(p)))]_vars

\* a call added its entry to a file that held two other keys, one of them
\* written twice, and the file still maps that key to its last value
C16_Witness ==
    \E p \in Procs :
        /\ pc[p] = "done"
        /\ wrote[p]
        /\ ~CacheFault(log[p])
        /\ Cardinality(KeysOnDisk(file)) = 3
        /\ ValueOnDisk(file, cache_key[p]) = result[p].val
        /\ ValueOnDisk(file, CacheKeyOf(S_openrouter, S_a)) = <<"y","o">>
        /\ ValueOnDisk(file, CacheKeyOf(S_groq, S_a)) = <<"h","i">>

(* C17 *)

\* C17: when a call that ran beside no other call and met no cache I/O
\* failure has ended, whatever its provider, prompt and use_cache, every key
\* the cache file held when the call began is still in the file with the same
\* value; so over a sequence of such calls no key is removed or changed.
C17_EntriesAccumulate ==
    \A p \in Procs :
        (pc[p] = "done" /\ file0[p].set) =>
            \A k \in KeysOnDisk(file0[p].file) :
                /\ k \in KeysOnDisk(file)
                /\ ValueOnDisk(file, k) = ValueOnDisk(file0[p].file, k)

\* the second of two calls in sequence added its entry and kept the entry of
\* the first
C17_Witness ==
    \E p \in Procs :
        /\ pc[p] = "done"
        /\ file0[p].set
        /\ wrote[p]
        /\ KeysOnDisk(file0[p].file) = {CacheKeyOf(S_groq, S_a)}
        /\ KeysOnDisk(file) = {CacheKeyOf(S_groq, S_a), CacheKeyOf(S_groq, S__a)}

(* C18 *)

\* the call of p is one that may write the cache file: use_cache=true, a
\* registered provider, no hit, one adapter invocation, and it succeeded
MayWrite(p) ==
    /\ use_cache[p]
    /\ Dispatched(p)
    /\ invoked[p] = <<[fn |-> PROVIDER_MAP[selected_provider_name[p]],
                       prompt |-> prompt[p]]>>
    /\ Logged(log[p], "RESPONSE (API)")
    /\ ~Logged(log[p], "RESPONSE (cached)")
    /\ ~Logged(log[p], "Error calling provider")

\* C18: a step that changes the cache file, or opens it for writing, is a step
\* of the write-back of a call with use_cache=true that missed and whose
\* adapter succeeded; the import, the provider check, the cache read and the
\* adapter invocation leave the file as it was.
C18_FrameCondition ==
    [][/\ file' # file =>
             \E p \in Procs :
                 /\ pc[p] \in {"open_w", "dump"}
                 /\ pc'[p] # pc[p]
                 /\ MayWrite(p)
       /\ \A p \in Procs :
             /\ (Len(io'[p]) = Len(io[p]) + 1 /\ io'[p][Len(io'[p])] = "w")
                  => MayWrite(p)
             /\ (pc[p] \in {"idle", "done", "read", "invoke", "reload"} /\ pc'[p] # pc[p])
                  => file' = file]_vars

\* a miss wrote the file while the other caller's hit left it alone
C18_Witness ==
    \E p, q \in Procs :
        /\ p # q
        /\ pc[p] = "done" /\ pc[q] = "done"
        /\ wrote[p]
        /\ MayWrite(p)
        /\ Logged(log[q], "RESPONSE (cached)")
        /\ io[q] = <<"r">>

(* C19 *)

\* two texts that differ in nothing but the case of their letters
UpperChar(c) ==
    CASE c = "g" -> "G"
      [] c = "r" -> "R"
      [] c = "o" -> "O"
      [] c = "q" -> "Q"
      [] OTHER -> c

SameButCase(s1, s2) ==
    /\ Len(s1) = Len(s2)
    /\ \A i \in 1..Len(s1) :
          s1[i] = s2[i] \/ s1[i] = UpperChar(s2[i]) \/ s2[i] = UpperChar(s1[i])

\* C19: of two calls whose provider arguments differ only in the case of
\* letters, when one is dispatched to a registered adapter so is the other, to
\* the same adapter, and for the same prompt with the same cache key; and a
\* call that follows, with no cache I/O failure, a call that returned a
\* response for the same prompt under another spelling of the provider is a
\* cache hit that returns that response.
C19_CaseInsensitive ==
    /\ \A p, q \in Procs :
          ( /\ pc[p] # "idle" /\ pc[q] # "idle"
            /\ provider[p].t = "str" /\ provider[q].t = "str"
            /\ SameButCase(provider[p].v, provider[q].v)
            /\ Dispatched(q) ) =>
              /\ Dispatched(p)
              /\ PROVIDER_MAP[selected_provider_name[p]]
                    = PROVIDER_MAP[selected_provider_name[q]]
              /\ prompt[p] = prompt[q] => cache_key[p] = cache_key[q]
    /\ \A p \in Procs :
          ( /\ role[p] = "later"
            /\ provider[p].t = "str" /\ chain.arg.t = "str"
            /\ provider[p].v # chain.arg.v
            /\ SameButCase(provider[p].v, chain.arg.v) ) =>
              /\ invoked[p] = <<>>
              /\ pc[p] = "done" =>
                    /\ result[p] = Returned(chain.text)
                    /\ Logged(log[p], "RESPONSE (cached)")

\* a response stored by a call for "groq" is the hit of a call for "Groq"
C19_Witness ==
    \E p \in Procs :
        /\ role[p] = "later"
        /\ pc[p] = "done"
        /\ provider[p] = PyStr(<<"G","r","o","q">>)
        /\ chain.arg = PyStr(S_groq)
        /\ result[p] = Returned(chain.text)
        /\ invoked[p] = <<>>

(* C20 *)

\* how many records of a log carry the message msg
Count(lg, msg) == Cardinality({i \in 1..Len(lg) : lg[i].msg = msg})

\* C20: the first record of a call on a registered provider is its only
\* PROMPT record, tagged with the resolved provider, and it is there before
\* the step that reads the cache file or invokes the adapter; a call that
\* returned has exactly one RESPONSE record, after the PROMPT record and
\* carrying the returned text: 'RESPONSE (cached)' when it invoked no adapter,
\* 'RESPONSE (API)' when it invoked one; a call rejected for an unknown
\* provider has one ERROR record and no PROMPT record.
C20_LogOrdering ==
    /\ [](\A p \in Procs :
            /\ Dispatched(p) =>
                  /\ log[p] # <<>>
                  /\ log[p][1] = [level |-> "INFO",
                                  provider |-> selected_provider_name[p],
                                  msg |-> "PROMPT", text |-> prompt[p]]
                  /\ Count(log[p], "PROMPT") = 1
                  /\ Count(log[p], "RESPONSE (cached)")
                        + Count(log[p], "RESPONSE (API)") <= 1
            /\ (Dispatched(p) /\ pc[p] = "done" /\ result[p].kind = "return") =>
                  /\ Count(log[p], "RESPONSE (cached)")
                        + Count(log[p], "RESPONSE (API)") = 1
                  /\ Logged(log[p], "RESPONSE (cached)") <=> invoked[p] = <<>>
                  /\ Logged(log[p], "RESPONSE (API)") <=> Len(invoked[p]) = 1
                  /\ \E i \in 2..Len(log[p]) :
                        /\ log[p][i].msg \in {"RESPONSE (cached)", "RESPONSE (API)"}
                        /\ log[p][i].text = result[p].val
                        /\ log[p][i].provider = selected_provider_name[p]
            /\ (pc[p] # "idle" /\ ~InProviderMap(selected_provider_name[p])) =>
                  /\ Len(log[p]) = 1
                  /\ log[p][1].level = "ERROR"
                  /\ log[p][1].msg = "Invalid provider"
                  /\ ~Logged(log[p], "PROMPT"))
    /\ [][\A p \in Procs :
             ( /\ pc[p] \notin {"idle", "done"}
               /\ (io'[p] # io[p] \/ invoked'[p] # invoked[p]) ) =>
                 /\ Logged(log[p], "PROMPT")
                 /\ (io[p] = <<>> /\ invoked[p] = <<>>) => Len(log[p]) = 1
                 /\ ~Logged(log[p], "RESPONSE (cached)")
                 /\ invoked'[p] # invoked[p] => ~Logged(log[p], "RESPONSE (API)")]_vars

\* a call that missed, met a failed reload and a failed save, and returned:
\* PROMPT, RESPONSE (API), then the two cache records
C20_Witness ==
    \E p \in Procs :
        /\ pc[p] = "done"
        /\ result[p].kind = "return"
        /\ Len(log[p]) = 4
        /\ log[p][1].msg = "PROMPT"
        /\ log[p][2].msg = "RESPONSE (API)"
        /\ log[p][4].msg = "Failed to save cache"

(* C21 *)

\* C21: whatever the interleaving, a step in which a call comes to return a
\* value is either its read of the cache file, and then the file it read is a
\* JSON object that maps the call's own key to that value and the call
\* invoked no adapter, or a step after its own single adapter invocation, and
\* then the value is the response that invocation gave; and no step of
\* another call changes the response a call holds.
C21_Provenance ==
    [][\A p \in Procs :
          /\ (InFlight(p) /\ result'[p].kind = "return") =>
                \/ /\ pc[p] = "read"
                   /\ invoked'[p] = <<>>
                   /\ IsObject(file)
                   /\ KeyOfCall(p) \in KeysOnDisk(file)
                   /\ result'[p].val = ValueOnDisk(file, KeyOfCall(p))
                \/ /\ pc[p] = "invoke"
                   /\ invoked[p] = <<>> /\ Len(invoked'[p]) = 1
                   /\ result'[p].val \in Responses
                   /\ result'[p].val = LoggedText(log'[p], "RESPONSE (API)")
                \/ /\ pc[p] \in {"open_w", "dump"}
                   /\ Len(invoked[p]) = 1
                   /\ result'[p].val = response_text[p]
                   /\ result'[p].val = LoggedText(log[p], "RESPONSE (API)")
          /\ (pc[p] \in {"reload", "open_w", "dump"} /\ pc'[p] = pc[p]) =>
                /\ response_text'[p] = response_text[p]
                /\ response_text[p] = LoggedText(log[p], "RESPONSE (API)")]_vars

\* two overlapping calls for one key on a file that was absent: one invoked
\* the adapter and wrote, the other read what the first wrote
C21_Witness ==
    \E p, q \in Procs :
        /\ p # q
        /\ pc[p] = "done" /\ pc[q] = "done"
        /\ ~file0[p].set /\ ~file0[q].set
        /\ cache_key[p] = cache_key[q]
        /\ wrote[q]
        /\ KeysOnDisk(file) = {cache_key[q]}
        /\ Logged(log[q], "RESPONSE (API)")
        /\ Logged(log[p], "RESPONSE (cached)")
        /\ invoked[p] = <<>>
        /\ result[p] = result[q]

(* C22 *)

\* the body has a choices[0].message.content field
HasContent(j) ==
    /\ j.t = "dict"
    /\ "choices" \in DictKeys(j.v)
    /\ DictGet(j.v, "choices").t = "list"
    /\ Len(DictGet(j.v, "choices").v) >= 1
    /\ LET first == DictGet(j.v, "choices").v[1] IN
       /\ first.t = "dict"
       /\ "message" \in DictKeys(first.v)
       /\ DictGet(first.v, "message").t = "dict"
       /\ "content" \in DictKeys(DictGet(first.v, "message").v)

\* that field
ContentOf(j) ==
    DictGet(DictGet(DictGet(j.v, "choices").v[1].v, "message").v, "content")

\* what the claim says of a response that call_openrouter has dealt with
ParsedAsClaimed ==
    LET j == adapter.response.json IN
    /\ (HasContent(j) /\ ContentOf(j).t = "str") =>
          adapter.outcome = Gave(ContentOf(j))
    /\ (~HasContent(j) \/ ContentOf(j).t = "None") =>
          /\ adapter.outcome.kind = "raise"
          /\ adapter.outcome.val = PyNone

\* C22 as stated: for every response with a success status (200..299),
\* call_openrouter returns choices[0].message.content when it is a string,
\* the empty string included, and fails, returning nothing, when choices is
\* absent or empty, message or content is absent, or content is null.
C22_Parsing_AsStated ==
    ( /\ adapter.fn = "call_openrouter"
      /\ adapter.pc = "done"
      /\ adapter.response.status_code \in 200..299 ) => ParsedAsClaimed

\* C22, amended: the same for every response with status 200.
C22_Parsing ==
    ( /\ adapter.fn = "call_openrouter"
      /\ adapter.pc = "done"
      /\ adapter.response.status_code = 200 ) => ParsedAsClaimed

\* a response whose content is the empty string was returned as such
C22_Witness ==
    /\ adapter.fn = "call_openrouter"
    /\ adapter.pc = "done"
    /\ adapter.response.status_code = 200
    /\ HasContent(adapter.response.json)
    /\ adapter.outcome = Gave(PyStr(<<>>))

(* C23 *)

\* the number of requests that went upstream: HTTP posts and chain
\* invocations; building an SDK client sends nothing
RECURSIVE Requests(_)
Requests(u) ==
    IF u = <<>> THEN 0
    ELSE (IF Head(u) \in {"POST", "invoke"} THEN 1 ELSE 0) + Requests(Tail(u))

\* the adapter has finished an invocation that found its credential
FinishedWithKey ==
    /\ adapter.pc = "done"
    /\ ~KeyMissing(getenv(adapter.env, KeyDefault(adapter.fn)))

\* an SDK adapter failed while building its client, before any request
ClientFailed ==
    /\ adapter.fn \in {"call_groq", "call_togetherai"}
    /\ adapter.upstream = <<"client">>
    /\ adapter.outcome.kind = "raise"

\* C23 as stated: an adapter invocation never sends more than one upstream
\* request, and every finished invocation that found its credential sent
\* exactly one, whether the request succeeded or failed.
C23_OneRequest_AsStated ==
    /\ Requests(adapter.upstream) <= 1
    /\ FinishedWithKey => Requests(adapter.upstream) = 1

\* C23, amended: an adapter invocation never sends more than one upstream
\* request; a finished invocation that found its credential sent exactly
\* one, whether it succeeded or failed, except that an SDK adapter whose
\* client could not be built failed without sending any.
C23_OneRequest ==
    /\ Requests(adapter.upstream) <= 1
    /\ FinishedWithKey =>
          IF ClientFailed
          THEN Requests(adapter.upstream) = 0
          ELSE Requests(adapter.upstream) = 1

\* call_groq sent its one request, the request failed, and no other followed
C23_Witness ==
    /\ FinishedWithKey
    /\ adapter.fn = "call_groq"
    /\ adapter.upstream = <<"client", "invoke">>
    /\ adapter.outcome.kind = "raise"

(* C24 *)

\* the one error kind the adapters raise for an upstream failure:
\* "raise Exception(error_msg)"
ProviderErrorKind == "Exception"

\* C24: every failure of an adapter that found its credential leaves it as
\* the one provider-error kind, with the adapter's message about the
\* upstream failure, whichever adapter it is and whatever failed (the
\* transport, the status, the SDK, the parsing of the response).
C24_UniformFailure ==
    (FinishedWithKey /\ adapter.outcome.kind = "raise") =>
        /\ adapter.outcome.exc = ProviderErrorKind
        /\ Len(adapter.outcome.msg) >= 2
        /\ adapter.outcome.msg[1] \in
              {"OpenRouter API call failed with status ",
               "Failed to parse OpenRouter response: ",
               ApiName(adapter.fn)}

====
